---------------------------- MODULE Spec2Model ----------------------------
(***************************************************************************)
(* A model of src/data.py: InverseBallisticsModel (trajectory simulation,  *)
(* impact extraction, forward process, MAP estimate with fallback) and     *)
(* InverseBallisticsDataset (the load-or-generate constructor).            *)
(*                                                                         *)
(* Reals are fixed-point integers: lengths, heights, speeds, times and the *)
(* physical constants are in thousandths ("milli"), exp() is computed to   *)
(* ten-thousandths, and every intermediate product fits 32 bits.  The 1500 *)
(* time samples of the source are thinned to NumSamples samples over the   *)
(* same interval [0, 6], and the chunk size 100000 of the constructor is   *)
(* scaled to ChunkRows.                                                    *)
(***************************************************************************)
EXTENDS Integers, Sequences, FiniteSets, TLC

VARIABLES
    files,      \* the file system: path -> NoFile or the stored array (its rows)
    last,       \* what the last InverseBallisticsDataset(...) call did and returned
    nCalls,     \* number of constructor calls so far
    disturbed,  \* an artifact was removed from outside since the last constructor call
    fwd,        \* the last direct forward_process call: its batch and its result
    map         \* the last find_MAP call: library outcomes and its result

vars == <<files, last, nCalls, disturbed, fwd, map>>

----------------------------------------------------------------------------
(* Bounds of the model.                                                    *)

\* largest requested count n of the storage specification
MaxN == 2
\* largest requested count n of the chunking specification
MaxNChunk == 4
\* constructor calls per behaviour
MaxCalls == 2
\* rows of a batch handed directly to forward_process
MaxBatch == 2
\* rows of a batch handed to find_MAP
MaxMapRows == 2

----------------------------------------------------------------------------
(* Program constants.                                                      *)

\* g = 9.81, k = 0.25, m = 0.2 (milli)
G == 9810
K == 250
M == 200
\* np.linspace(0, 6, 1500): end of the time window, and the number of samples
TEnd == 6000
NumSamples == 7
\* the positive sentinel 0.1 written over samples before the peak
Sentinel == 100
\* rows per forward_process chunk of the constructor (100000 in the source)
ChunkRows == 2

----------------------------------------------------------------------------
(* Fixed-point helpers.                                                    *)

Min(a, b) == IF a < b THEN a ELSE b

\* the scale of exp() values
ExpScale == 10 * 1000

RECURSIVE PowScaled(_, _)
PowScaled(b, e) == IF e = 0 THEN ExpScale ELSE (b * PowScaled(b, e - 1)) \div ExpScale

RECURSIVE ExpSeries(_, _, _)
\* sum over i >= j of (-f)^i / i!, 0 <= f < 1 scaled by ExpScale, term = (-f)^j / j!
ExpSeries(f, j, term) ==
    IF j > 12 \/ term = 0 THEN 0
    ELSE term + ExpSeries(f, j + 1, (0 - term * f) \div (ExpScale * (j + 1)))

\* np.exp(-u) for u >= 0 in milli; the result is scaled by ExpScale
ExpNeg(u) ==
    LET whole == u \div 1000
        frac  == (u % 1000) * (ExpScale \div 1000)
        e1    == 3679       \* e^(-1), scaled by ExpScale
    IN  (PowScaled(e1, whole) * ExpSeries(frac, 0, ExpScale)) \div ExpScale

\* np.cos and np.sin of the launch angles of the model (degrees -> milli)
Cos(deg) == CASE deg = 9 -> 988 [] deg = 45 -> 707 [] deg = 81 -> 156
Sin(deg) == CASE deg = 9 -> 156 [] deg = 45 -> 707 [] deg = 81 -> 988

----------------------------------------------------------------------------
(* Parameter rows.                                                         *)

Row(x0, y0, angle, v0) == [x0 |-> x0, y0 |-> y0, angle |-> angle, v0 |-> v0]

\* Rows of the documented parameter domain, which is the support of
\* sample_prior: y0 >= 0 (np.maximum(y, 0)), the angle within
\* [0.1, 0.9] * pi/2, v0 a Poisson count (0 and large counts included).
ParamDomain == [x0 : {0}, y0 : {0, 1500}, angle : {9, 45, 81}, v0 : {0, 15, 60}]

----------------------------------------------------------------------------
(* InverseBallisticsModel: simulation and impact extraction.               *)
(* A parameter row is [x0, y0, angle, v0]: x0 and y0 in milli, the launch  *)
(* angle in degrees, v0 an integer speed.  A batch is a sequence of rows.  *)

\* np.linspace(0, 6, 1500)[j] (1-based j), in milli
TimeAt(j) == (TEnd * (j - 1)) \div (NumSamples - 1)

\* expterm = np.exp(-self.k*t / self.m) - 1, scaled by ExpScale
ExpTerm(t) == ExpNeg((K * t) \div M) - ExpScale

\* xt = x0 - (vx*self.m / self.k) * expterm
XAt(p, t) ==
    LET vx == p.v0 * Cos(p.angle)
    IN  p.x0 - (((vx * M) \div K) * ExpTerm(t)) \div ExpScale

\* yt = y0 - (self.m/(self.k*self.k)) * ((self.g*self.m + vy*self.k) * expterm + self.g*t*self.k)
YAt(p, t) ==
    LET vy    == p.v0 * Sin(p.angle)
        gm    == (G * M) \div 1000
        vyk   == (vy * K) \div 1000
        inner == ((gm + vyk) * ExpTerm(t)) \div ExpScale + (((G * t) \div 1000) * K) \div 1000
    IN  p.y0 - (((M * 1000) \div K) * inner) \div K

\* The curve of every row of the parameter domain: xt and yt at the
\* NumSamples time points (@@ <<>> makes it a table, computed once).
Curve ==
    [p \in ParamDomain |->
        [xs |-> [j \in 1..NumSamples |-> XAt(p, TimeAt(j))],
         ys |-> [j \in 1..NumSamples |-> YAt(p, TimeAt(j))]]] @@ <<>>

\* trajectories_from_parameters: two matrices, a row per parameter row
trajectories_from_parameters(x) ==
    [xs |-> [r \in 1..Len(x) |-> Curve[x[r]].xs],
     ys |-> [r \in 1..Len(x) |-> Curve[x[r]].ys]]

\* np.argmax over one row: the first index of the largest value
ArgMax(row) ==
    CHOOSE j \in 1..Len(row) :
        /\ \A i \in 1..Len(row) : row[i] <= row[j]
        /\ \A i \in 1..(j - 1) : row[i] < row[j]

\* np.signbit: set for negative values; a height of exactly 0 (+0.0) is clear
SignBitWrong(v) == v <= 0
SignBit(v) == v < 0

\* ys_after_peak = np.where(xs < xs[row, ys_peak][:,None], 0.1, ys), one row
AfterPeak(xrow, yrow) ==
    LET peak == ArgMax(yrow)
    IN  [j \in 1..Len(yrow) |-> IF xrow[j] < xrow[peak] THEN Sentinel ELSE yrow[j]]

\* np.diff(np.signbit(row)): position j is set iff the sign bits of j and j+1 differ
SignFlips(row) == [j \in 1..(Len(row) - 1) |-> SignBit(row[j]) # SignBit(row[j + 1])]

RECURSIVE NonZeroRow(_, _)
\* the set positions of one row, increasing, from position j on
NonZeroRow(flips, j) ==
    IF j > Len(flips) THEN <<>>
    ELSE (IF flips[j] THEN <<j>> ELSE <<>>) \o NonZeroRow(flips, j + 1)

RECURSIVE GatherReversed(_, _, _)
GatherReversed(xs, ysap, r) ==
    IF r > Len(xs) THEN <<>>
    ELSE LET cols == NonZeroRow(SignFlips(ysap[r]), 1)
         IN  GatherReversed(xs, ysap, r + 1) \o [i \in 1..Len(cols) |-> xs[r][cols[i]]]

RECURSIVE Gather(_, _, _)
\* xs[mask.nonzero()]: the selected elements in row-major order, from row r on
Gather(xs, ysap, r) ==
    IF r > Len(xs) THEN <<>>
    ELSE LET cols == NonZeroRow(SignFlips(ysap[r]), 1)
         IN  [i \in 1..Len(cols) |-> xs[r][cols[i]]] \o Gather(xs, ysap, r + 1)

\* impact_from_trajectories(xs, ys): a flat sequence of impact x-values
impact_from_trajectories(xs, ys) ==
    LET ysap == [r \in 1..Len(ys) |-> AfterPeak(xs[r], ys[r])]
    IN  Gather(xs, ysap, 1)

\* forward_process(x): impact_from_trajectories(...)[:,None]; a row is its one value
forward_process(x) ==
    LET tr == trajectories_from_parameters(x)
    IN  impact_from_trajectories(tr.xs, tr.ys)

----------------------------------------------------------------------------
(* InverseBallisticsModel.find_MAP.  MeanShift and KernelDensity are       *)
(* library calls: each either raises or returns, and what it returns is    *)
(* drawn from small sets.  A point is a tuple of integers; a density is    *)
(* [kind, v] with kind "num", "ninf" (-inf) or "nan".                      *)

NegInf == [kind |-> "ninf", v |-> 0]

\* d > best[1] on floats: false whenever a NaN is involved, nothing is below -inf
Greater(d, b) ==
    /\ d.kind = "num"
    /\ \/ b.kind = "ninf"
       \/ b.kind = "num" /\ d.v > b.v

RECURSIVE BestCenter(_, _, _, _)
\* the loop over zip(centers, dens), from pair i on; best = [c, d], c = <<>> for None
BestCenter(centers, dens, i, best) ==
    IF i > Min(Len(centers), Len(dens)) THEN best
    ELSE BestCenter(centers, dens, i + 1,
                    IF Greater(dens[i], best.d) THEN [c |-> centers[i], d |-> dens[i]]
                    ELSE best)

\* np.sum((row - c)**2)
SqDist(row, c) == (row[1] - c[1]) * (row[1] - c[1]) + (row[2] - c[2]) * (row[2] - c[2])

\* np.argmin(dist_to_best): the first index (0-based) of the smallest distance
ArgMinDist(x, c) ==
    (CHOOSE j \in 1..Len(x) :
        /\ \A i \in 1..Len(x) : SqDist(x[j], c) <= SqDist(x[i], c)
        /\ \A i \in 1..(j - 1) : SqDist(x[i], c) > SqDist(x[j], c)) - 1

\* The body of the try block: [exc, ret], exc = "" when it returns ret.
\* ms, kde, score: the exception the library call raises, or "" for none.
TryBody(x, ms, centers, kde, score, dens) ==
    IF ms # "" THEN [exc |-> ms, ret |-> 0]
    ELSE IF kde # "" THEN [exc |-> kde, ret |-> 0]
    ELSE IF score # "" THEN [exc |-> score, ret |-> 0]
    ELSE LET best == BestCenter(centers, dens, 1, [c |-> <<>>, d |-> NegInf])
         IN  IF best.c = <<>> THEN [exc |-> "TypeError", ret |-> 0]      \* x - None
             ELSE IF Len(x) = 0 THEN [exc |-> "ValueError", ret |-> 0]   \* argmin of nothing
             ELSE [exc |-> "", ret |-> ArgMinDist(x, best.c)]

\* a bare "except:" catches every exception
CatchesOnlyValueError(exc) == exc = "ValueError"
Catches(exc) == TRUE

\* find_MAP(x): [ret, printed, raised]
find_MAP(x, ms, centers, kde, score, dens) ==
    LET body == TryBody(x, ms, centers, kde, score, dens)
    IN  IF body.exc = "" THEN [ret |-> body.ret, printed |-> FALSE, raised |-> ""]
        ELSE IF Catches(body.exc) THEN [ret |-> 0, printed |-> TRUE, raised |-> ""]
        ELSE [ret |-> 0 - 1, printed |-> FALSE, raised |-> body.exc]

----------------------------------------------------------------------------
(* sample_prior.                                                           *)

\* The rows sample_prior draws in the chunking specification: two rows that
\* reach the ground within the time window, at different places, and one
\* (v0 = 60, steep) that is still in the air at t = 6.
SampleRows == {Row(0, 1500, 45, 15), Row(0, 0, 81, 15), Row(0, 1500, 81, 60)}

\* The rows sample_prior draws in the storage specification: one that reaches
\* the ground and the one that does not.
StorageSampleRows == {Row(0, 1500, 45, 15), Row(0, 1500, 81, 60)}

\* sample_prior(N): any N rows of the given support
sample_prior(n, rows) == [1..n -> rows]

----------------------------------------------------------------------------
(* InverseBallisticsDataset.__init__ and the file system it works on.      *)

\* root_dir=None (the Python value, not a string)
NoDir == "<None>"
\* self.model.name
ModelName == "inverse-ballistics"
\* the directories of the model: a data directory, and the directory named
\* None, which is what f'{root_dir}' names when root_dir is None
Dirs == {"bal_data", "None"}
RootDirs == {NoDir} \cup Dirs
\* suffixes, as sequences of characters
Suffixes == {<<"t">>, <<"_", "t">>}
\* the storage operation that raises, if it is executed
Failures == {"none", "makedirs", "save_x", "save_y"}

\* f'{root_dir}'
FormatDir(root_dir) == IF root_dir = NoDir THEN "None" ELSE root_dir

\* if len(suffix) > 0 and not '_' in suffix[:1]: suffix = '_' + suffix
NormSuffix(suffix) ==
    IF Len(suffix) > 0 /\ ~(\E i \in 1..Min(1, Len(suffix)) : suffix[i] = "_")
    THEN <<"_">> \o suffix
    ELSE suffix

\* f'{root_dir}/{self.model.name}_{role}{suffix}.npy'
Path(root_dir, role, sfx) == <<FormatDir(root_dir), ModelName, role, sfx>>

Paths == {<<d, ModelName, r, NormSuffix(s)>> : d \in Dirs, r \in {"x", "y"}, s \in Suffixes}

NoFile == [exists |-> FALSE, rows |-> <<>>]
File(rows) == [exists |-> TRUE, rows |-> rows]

\* rows[:n,...]
TakeAll(rows, n) == rows
Take(rows, n) == SubSeq(rows, 1, Min(n, Len(rows)))

\* rows[lo:hi,...] (0-based, hi exclusive; Python clamps both to the length)
Slice(rows, lo, hi) == SubSeq(rows, Min(lo, Len(rows)) + 1, Min(hi, Len(rows)))

\* np.save(path, rows)
SavedNowhere(fs, path, rows) == fs
Saved(fs, path, rows) == [fs EXCEPT ![path] = File(rows)]

\* An exception raised by os.makedirs or np.save inside the except handlers
\* is not caught: it leaves __init__.
RaisesNever(op, fail) == FALSE
Raises(op, fail) == fail = op

\* range((n-1)//100000 + 1)
ChunkCountFloor(n) == n \div ChunkRows
ChunkCount(n) == (n - 1) \div ChunkRows + 1

\* The forward_process calls of the observation fallback, in order: the
\* slice bounds [lo, hi) and the batch passed.
ForwardCalls(x, n) ==
    IF n > ChunkRows
    THEN [i \in 1..ChunkCount(n) |->
            LET lo == ChunkRows * (i - 1)
                hi == Min(n, ChunkRows * i)
            IN  [lo |-> lo, hi |-> hi, arg |-> Slice(x, lo, hi)]]
    ELSE <<[lo |-> 0, hi |-> Len(x), arg |-> x]>>

\* model.forward_process on every batch the constructor can pass (a table,
\* computed once)
Observations ==
    [x \in UNION {[1..len -> SampleRows] :
                    len \in 0..(IF MaxN > MaxNChunk THEN MaxN ELSE MaxNChunk)} |->
        forward_process(x)] @@ <<>>

RECURSIVE ConcatResults(_, _)
\* np.concatenate(y, axis=0) of the calls' results, from call i on
ConcatResults(calls, i) ==
    IF i > Len(calls) THEN <<>>
    ELSE Observations[calls[i].arg] \o ConcatResults(calls, i + 1)

NoCall ==
    [outcome |-> "none", n |-> 0, root_dir |-> NoDir, suffix |-> <<>>,
     x |-> <<>>, y |-> <<>>, warned |-> FALSE,
     xLoaded |-> FALSE, yLoaded |-> FALSE, priorCalls |-> <<>>, fwdCalls |-> <<>>,
     fail |-> "none", ops |-> <<>>, repeat |-> FALSE]

\* InverseBallisticsDataset(model, n, root_dir, suffix), the whole constructor.
\* fail names the storage operation that raises should it be executed, and
\* rows the support sample_prior draws from.  The record of the call keeps
\* the arguments (the suffix as normalised), the outcome ("returned" with
\* self.x and self.y, or "raised"), whether the warning was issued, which
\* artifacts were loaded, the arguments of the sample_prior and
\* forward_process calls, the storage operations executed, and whether the
\* call repeats the one before it (same arguments, after it returned, nothing
\* removed in between).
Construct(n, root_dir, suffix, fail, rows) ==
    /\ nCalls < MaxCalls
    /\ LET sfx  == NormSuffix(suffix)
           px   == Path(root_dir, "x", sfx)
           py   == Path(root_dir, "y", sfx)
           xHit == files[px].exists        \* np.load(...) of the parameters succeeds
       IN  \E prior \in (IF xHit THEN {<<>>} ELSE sample_prior(n, rows)) :
           LET x       == IF xHit THEN Take(files[px].rows, n) ELSE prior
               storeX  == ~xHit /\ root_dir # NoDir
               raisedM == storeX /\ Raises("makedirs", fail)
               raisedX == storeX /\ (raisedM \/ Raises("save_x", fail))
               files1  == IF storeX /\ ~raisedX THEN Saved(files, px, x) ELSE files
               yHit    == files1[py].exists    \* np.load(...) of the observations succeeds
               calls   == IF yHit THEN <<>> ELSE ForwardCalls(x, n)
               y       == IF yHit THEN Take(files1[py].rows, n) ELSE ConcatResults(calls, 1)
               storeY  == ~yHit /\ root_dir # NoDir
               raisedY == storeY /\ Raises("save_y", fail)
               files2  == IF storeY /\ ~raisedY THEN Saved(files1, py, y) ELSE files1
               opsX    == IF ~storeX THEN <<>>
                          ELSE IF raisedM THEN <<"makedirs">> ELSE <<"makedirs", "save_x">>
               opsY    == IF storeY THEN <<"save_y">> ELSE <<>>
               call    == [outcome |-> "returned", n |-> n, root_dir |-> root_dir,
                           suffix |-> sfx, x |-> x, y |-> y,
                           warned |-> root_dir = NoDir,
                           xLoaded |-> xHit, yLoaded |-> yHit,
                           priorCalls |-> IF xHit THEN <<>> ELSE <<n>>,
                           fwdCalls |-> calls,
                           fail |-> fail, ops |-> opsX \o opsY,
                           repeat |-> /\ last.outcome = "returned" /\ ~disturbed
                                      /\ last.n = n /\ last.root_dir = root_dir
                                      /\ last.suffix = sfx]
           IN  IF raisedX
               THEN /\ files' = files
                    /\ last' = [call EXCEPT !.outcome = "raised", !.x = <<>>, !.y = <<>>,
                                            !.yLoaded = FALSE, !.fwdCalls = <<>>,
                                            !.ops = opsX]
               ELSE IF raisedY
               THEN /\ files' = files1
                    /\ last' = [call EXCEPT !.outcome = "raised", !.x = <<>>, !.y = <<>>]
               ELSE /\ files' = files2
                    /\ last' = call
    /\ nCalls' = nCalls + 1
    /\ disturbed' = FALSE
    /\ UNCHANGED <<fwd, map>>

\* The environment: an artifact is removed from the storage location.
RemoveArtifact(path) ==
    /\ files[path].exists
    /\ files' = [files EXCEPT ![path] = NoFile]
    /\ disturbed' = TRUE
    /\ UNCHANGED <<last, nCalls, fwd, map>>

----------------------------------------------------------------------------
(* Direct calls of the pure operations.                                    *)

NoFwd == [x |-> <<>>, y |-> <<>>]
NoMap == [x |-> <<>>, ms |-> "", centers |-> <<>>, kde |-> "", score |-> "", dens |-> <<>>,
          out |-> [ret |-> 0, printed |-> FALSE, raised |-> ""]]

\* model.forward_process(x) on a batch of the parameter domain
ForwardProcess(x) ==
    /\ fwd = NoFwd
    /\ fwd' = [x |-> x, y |-> forward_process(x)]
    /\ UNCHANGED <<files, last, nCalls, disturbed, map>>

\* the points, densities and exceptions of the find_MAP specification
Points == {<<0, 0>>, <<2, 1>>}
Densities == {NegInf, [kind |-> "nan", v |-> 0], [kind |-> "num", v |-> 1],
              [kind |-> "num", v |-> 2]}
LibraryOutcomes == {"", "MemoryError"}

\* model.find_MAP(x) with the library calls behaving as given
FindMAP(x, ms, centers, kde, score, dens) ==
    /\ map = NoMap
    /\ map' = [x |-> x, ms |-> ms, centers |-> centers, kde |-> kde, score |-> score,
               dens |-> dens, out |-> find_MAP(x, ms, centers, kde, score, dens)]
    /\ UNCHANGED <<files, last, nCalls, disturbed, fwd>>

----------------------------------------------------------------------------
(* Specifications.                                                         *)

Init ==
    /\ files = [p \in Paths |-> NoFile]
    /\ last = NoCall
    /\ nCalls = 0
    /\ disturbed = FALSE
    /\ fwd = NoFwd
    /\ map = NoMap

\* the constructor against a file system
Next ==
    \/ \E n \in 1..MaxN, root_dir \in RootDirs, suffix \in Suffixes, fail \in Failures :
          Construct(n, root_dir, suffix, fail, StorageSampleRows)
    \/ \E path \in Paths : RemoveArtifact(path)

Spec == Init /\ [][Next]_vars

\* the constructor without a storage location, for larger n
NextChunk ==
    /\ nCalls = 0
    /\ \E n \in 1..MaxNChunk : Construct(n, NoDir, <<"t">>, "none", SampleRows)

SpecChunk == Init /\ [][NextChunk]_vars

\* forward_process on batches of the parameter domain
BatchesUpTo(S, k) == UNION {[1..len -> S] : len \in 0..k}

NextFwd == \E x \in BatchesUpTo(ParamDomain, MaxBatch) : ForwardProcess(x)

SpecFwd == Init /\ [][NextFwd]_vars

\* find_MAP with every behaviour of the library calls
NextMap ==
    \E x \in BatchesUpTo(Points, MaxMapRows), centers \in BatchesUpTo(Points, 2),
       dens \in BatchesUpTo(Densities, 2),
       ms \in LibraryOutcomes, kde \in LibraryOutcomes, score \in LibraryOutcomes :
          FindMAP(x, ms, centers, kde, score, dens)

SpecMap == Init /\ [][NextMap]_vars

----------------------------------------------------------------------------
(* Notions the properties are stated with.                                 *)

\* the trajectory of p is below the ground at some sampled time point
CrossesGround(p) == \E j \in 1..NumSamples : Curve[p].ys[j] < 0

AllCross(x) == \A i \in 1..Len(x) : CrossesGround(x[i])

\* Above and below the ground; zeroIsUp says on which side a height of
\* exactly 0 is counted.
Up(v, zeroIsUp) == v > 0 \/ (zeroIsUp /\ v = 0)
Down(v, zeroIsUp) == v < 0 \/ (~zeroIsUp /\ v = 0)

\* the sample positions at or after the peak where the height goes from up
\* to down
Crossings(p, zeroIsUp) ==
    {j \in ArgMax(Curve[p].ys)..(NumSamples - 1) :
        Up(Curve[p].ys[j], zeroIsUp) /\ Down(Curve[p].ys[j + 1], zeroIsUp)}

Lowest(S) == CHOOSE j \in S : \A i \in S : j <= i

\* the x-value at the first crossing of p, as a sequence: empty without one
FirstCrossingX(p, zeroIsUp) ==
    LET c == Crossings(p, zeroIsUp)
    IN  IF c = {} THEN <<>> ELSE <<Curve[p].xs[Lowest(c)]>>

RECURSIVE PerRow(_, _, _)
\* the first-crossing values of the rows of x, in row order, from row i on
PerRow(x, i, zeroIsUp) ==
    IF i > Len(x) THEN <<>>
    ELSE FirstCrossingX(x[i], zeroIsUp) \o PerRow(x, i + 1, zeroIsUp)

\* the stored artifact a call's arguments name
ArtifactOf(call, role) == files[Path(call.root_dir, role, call.suffix)]

Returned == last.outcome = "returned"

----------------------------------------------------------------------------
(* Properties.                                                             *)

\* C1: every construction that returns holds exactly n rows in self.x and in
\* self.y, whatever the storage location held before; in particular a stored
\* artifact with fewer than n rows is not returned short.  (Stated for a
\* construction with a storage location and parameter rows that all reach
\* the ground, so that neither root_dir=None nor the rows forward_process
\* drops play a part.)  The constructor violates it.
C1_ExactlyNRows ==
    (Returned /\ last.root_dir # NoDir /\ AllCross(last.x)) =>
        (Len(last.x) = last.n /\ Len(last.y) = last.n)

\* C2: the returned dataset is row-aligned (y[i] is the impact of x[i]), a
\* regenerated parameter batch never comes with a loaded observation
\* artifact, and a parameter artifact is never accepted with an observation
\* artifact of fewer rows.  (Stated for a construction with a storage
\* location and parameter rows that all reach the ground.)  The constructor
\* violates it.
C2_RowAligned ==
    (Returned /\ last.root_dir # NoDir /\ AllCross(last.x)) =>
        /\ Len(last.y) = Len(last.x)
        /\ \A i \in 1..Len(last.x) :
              <<last.y[i]>> = FirstCrossingX(last.x[i], TRUE)
        /\ ~last.xLoaded => ~last.yLoaded
        /\ (last.xLoaded /\ last.yLoaded /\ ~disturbed
              /\ AllCross(ArtifactOf(last, "x").rows)) =>
                 Len(ArtifactOf(last, "y").rows) >= Len(ArtifactOf(last, "x").rows)

\* C3: a construction that repeats the one before it (same n, location and
\* suffix, the first one returned, nothing removed in between) returns the
\* same x and y and calls neither sample_prior nor forward_process.
C3_SecondConstructionOnlyLoads ==
    [][(nCalls' = nCalls + 1 /\ last'.repeat /\ last'.root_dir # NoDir) =>
          /\ last'.outcome = "returned"
          /\ last'.x = last.x /\ last'.y = last.y
          /\ last'.xLoaded /\ last'.yLoaded
          /\ last'.priorCalls = <<>> /\ last'.fwdCalls = <<>>]_vars

C3_Witness ==
    /\ Returned /\ last.repeat /\ last.root_dir # NoDir
    /\ last.priorCalls = <<>> /\ last.fwdCalls = <<>>
    /\ Len(last.x) = 2 /\ Len(last.y) = 1

\* C4: constructing with n below the row count M of both stored artifacts
\* returns the first n rows of each and leaves the stored artifacts as they
\* were.
C4_TruncatesWithoutRewriting ==
    [][(/\ nCalls' = nCalls + 1
        /\ last'.root_dir # NoDir
        /\ ArtifactOf(last', "x").exists /\ ArtifactOf(last', "y").exists
        /\ Len(ArtifactOf(last', "x").rows) = Len(ArtifactOf(last', "y").rows)
        /\ last'.n < Len(ArtifactOf(last', "x").rows)) =>
          /\ last'.outcome = "returned"
          /\ last'.x = SubSeq(ArtifactOf(last', "x").rows, 1, last'.n)
          /\ last'.y = SubSeq(ArtifactOf(last', "y").rows, 1, last'.n)
          /\ last'.ops = <<>>
          /\ files' = files]_vars

C4_Witness ==
    /\ Returned /\ last.root_dir # NoDir /\ ~disturbed
    /\ last.xLoaded /\ last.yLoaded /\ last.ops = <<>>
    /\ Len(ArtifactOf(last, "x").rows) = 2 /\ Len(ArtifactOf(last, "y").rows) = 2
    /\ last.n = 1 /\ Len(last.x) = 1 /\ Len(last.y) = 1

\* C5: when the observations of n parameter rows are generated, forward_process
\* is called once on the whole batch if n <= ChunkRows, and otherwise on
\* ceil(n / ChunkRows) consecutive, non-empty ranges of at most ChunkRows rows
\* that cover the rows 0..n-1 once each, in increasing order; the
\* concatenated result is that of one call on the whole batch.
C5_ChunkEquivalent ==
    (Returned /\ ~last.yLoaded /\ Len(last.x) = last.n) =>
        LET n == last.n
            c == last.fwdCalls
        IN  /\ n <= ChunkRows => c = <<[lo |-> 0, hi |-> n, arg |-> last.x]>>
            /\ n > ChunkRows =>
                  /\ Len(c) = (n + ChunkRows - 1) \div ChunkRows
                  /\ c[1].lo = 0 /\ c[Len(c)].hi = n
                  /\ \A i \in 1..(Len(c) - 1) : c[i + 1].lo = c[i].hi
                  /\ \A i \in 1..(Len(c) - 1) : c[i].hi - c[i].lo = ChunkRows
                  /\ \A i \in 1..Len(c) :
                        /\ c[i].lo < c[i].hi /\ c[i].hi - c[i].lo <= ChunkRows
                        /\ c[i].arg = SubSeq(last.x, c[i].lo + 1, c[i].hi)
                  /\ \A r \in 0..(n - 1) :
                        Cardinality({i \in 1..Len(c) : c[i].lo <= r /\ r < c[i].hi}) = 1
            /\ last.y = forward_process(last.x)

C5_Witness ==
    /\ Returned /\ ~last.yLoaded /\ last.n = 3 /\ Len(last.fwdCalls) = 2
    /\ last.fwdCalls[2].arg = <<last.x[3]>>
    /\ Len(last.y) = 2 /\ last.y[1] # last.y[2]

\* C6: when every row of a forward_process batch reaches the ground within
\* the sampled time points, the output has one row per input row, and output
\* row i is the impact of input row i: the x-value of the last sample before
\* the trajectory is below the ground.
C6_OneImpactPerRow ==
    (fwd.x # <<>> /\ AllCross(fwd.x)) =>
        /\ Len(fwd.y) = Len(fwd.x)
        /\ \A i \in 1..Len(fwd.x) :
              \E j \in 1..(NumSamples - 1) :
                 /\ Curve[fwd.x[i]].ys[j + 1] < 0
                 /\ \A h \in 1..j : Curve[fwd.x[i]].ys[h] >= 0
                 /\ fwd.y[i] = Curve[fwd.x[i]].xs[j]

C6_Witness ==
    /\ Len(fwd.x) = 2 /\ AllCross(fwd.x) /\ Len(fwd.y) = 2 /\ fwd.y[1] # fwd.y[2]

\* C7: find_MAP never lets an exception out; whenever a library call raises,
\* no center has a density above -inf, or there is no row to pick, it prints
\* the diagnostic and returns index 0.
C7_FallbackIndexZero ==
    /\ map.out.raised = ""
    /\ (\/ map.ms # "" \/ map.kde # "" \/ map.score # ""
        \/ \A i \in 1..Min(Len(map.centers), Len(map.dens)) : map.dens[i].kind # "num"
        \/ map # NoMap /\ map.x = <<>>) =>
          (map = NoMap \/ map.out = [ret |-> 0, printed |-> TRUE, raised |-> ""])

C7_Witness ==
    /\ map.ms = "" /\ map.kde = "" /\ map.score = ""
    /\ Len(map.x) = 2 /\ map.x[1] = map.x[2]
    /\ Len(map.centers) = 2 /\ Len(map.dens) = 2
    /\ \A i \in 1..2 : map.dens[i].kind # "num"
    /\ map.out = [ret |-> 0, printed |-> TRUE, raised |-> ""]

\* C8: with a storage location, a failing os.makedirs or np.save ends the
\* construction with the exception and without a dataset; a construction
\* that returns has persisted both artifacts.
C8_StorageFailureIsFatal ==
    /\ (\E i \in 1..Len(last.ops) : last.ops[i] = last.fail) =>
          (last.outcome = "raised" /\ last.x = <<>> /\ last.y = <<>>)
    /\ (Returned /\ last.root_dir # NoDir /\ ~disturbed) =>
          (ArtifactOf(last, "x").exists /\ ArtifactOf(last, "y").exists)

C8_Witness ==
    /\ last.outcome = "raised" /\ last.fail = "save_y"
    /\ last.ops = <<"makedirs", "save_x", "save_y">>
    /\ ArtifactOf(last, "x").exists /\ ~ArtifactOf(last, "y").exists

\* C9: a construction with root_dir=None warns, loads no stored artifact,
\* executes no storage operation, and draws its n rows from sample_prior and
\* its observations from forward_process.  The constructor violates it.
C9_InMemoryOnly ==
    (last.outcome # "none" /\ last.root_dir = NoDir) =>
        /\ last.warned
        /\ ~last.xLoaded /\ ~last.yLoaded
        /\ last.ops = <<>>
        /\ last.priorCalls = <<last.n>> /\ last.fwdCalls # <<>>

\* C10, as claimed: the output holds, row by row, the x-value at the first
\* position at or after the peak where the height goes from positive to
\* non-positive (a height of exactly 0 is non-positive), and nothing for a row
\* without such a position.
C10_PositiveToNonPositive ==
    fwd.y = PerRow(fwd.x, 1, FALSE)

\* C10, amended: the output holds, row by row, the x-value of the last sample
\* at or after the peak whose height is not negative (a height of exactly 0
\* still counts as above the ground) before the first negative one, and
\* nothing for a row without such a sample.
C10_NonNegativeToNegative ==
    fwd.y = PerRow(fwd.x, 1, TRUE)

C10_Witness ==
    /\ Len(fwd.x) = 2 /\ Len(fwd.y) = 1
    /\ fwd.x[1].v0 = 60 /\ fwd.x[1].angle = 81
    /\ fwd.x[2].y0 = 0 /\ fwd.x[2].v0 = 0
    /\ fwd.y[1] = fwd.x[2].x0

=============================================================================
